---------------------------- MODULE Spec2Model ----------------------------
(***************************************************************************)
(* A model of fifoirc (src/fifoirc.c): the poll loop of main, the line     *)
(* reader get_line, the frame writer irc_write, the connection handling    *)
(* (irc_connect, irc_disconnect, quit) and the two line handlers           *)
(* (irc_handle, text_handle).                                              *)
(*                                                                         *)
(* A C string is a sequence of one-byte tokens; "^A" stands for byte 0x01. *)
(* A descriptor of the remote connection is the number of the connection   *)
(* it was opened for; 0 stands for -1.                                     *)
(***************************************************************************)
EXTENDS Integers, Sequences, FiniteSets, TLC

----------------------------------------------------------------------------
(* Bounds of the model *)

\* wake-ups (returns of poll) explored
MaxWake == 2
\* things the outside world does (bytes written, closes) in one run
MaxEvents == 2
\* connections opened by make_tcp in one run
MaxConn == 3
\* seconds poll waits for something new to arrive, fewer than its timeout
ReadyWait == 300
\* time(NULL) when main starts
StartTime == 1000

----------------------------------------------------------------------------
(* Program constants *)

BUFLEN == 1024
TEXT_BUFLEN == 450
POLL_TIMEOUT_SEC == 600
IDLE_LIMIT_SEC == 600
\* the protocol's ceiling for one line, terminator included
IRC_LINE_MAX == 512

NULL == <<"NULL">>

CRLF == <<"\r","\n">>
S_PRIVMSG_SP == <<"P","R","I","V","M","S","G"," ">>
S_SP_COLON == <<" ",":">>
S_NICK_SP == <<"N","I","C","K"," ">>
S_USER_SP == <<"U","S","E","R"," ">>
S_LOCALHOST == <<" ","l","o","c","a","l","h","o","s","t"," ">>
S_IDENTIFY == <<"P","R","I","V","M","S","G"," ","N","i","c","k","S","e","r","v"," ",":","i","d","e","n","t","i","f","y"," ">>
S_JOIN_SP == <<"J","O","I","N"," ">>
S_PING5 == <<"P","I","N","G"," ">>
S_SP_PRIVMSG_SP == <<" ","P","R","I","V","M","S","G"," ">>
S_CTCP_VERSION_NL == <<":","^A","V","E","R","S","I","O","N","^A","\n">>
S_NOTICE_SP == <<"N","O","T","I","C","E"," ">>
S_VERSION_REPLY == <<" ",":","^A","V","E","R","S","I","O","N"," ","f","i","f","o","i","r","c","^A">>
S_QUIT == <<"Q","U","I","T">>
S_PING_COLON == <<"P","I","N","G"," ",":">>

\* the configuration the command line leaves behind (main, getopt loop)
server == <<"i","r","c",".","e","x","a","m","p","l","e">>
nickname == <<"b","o","t">>
fullname == <<"F","i","f","o"," ","B","o","t">>

----------------------------------------------------------------------------
(* C string helpers *)

Min(a, b) == IF a < b THEN a ELSE b

Take(s, n) == SubSeq(s, 1, Min(n, Len(s)))

Drop(s, n) == SubSeq(s, Min(n, Len(s)) + 1, Len(s))

Rep(c, n) == [i \in 1..n |-> c]

\* strchr / strpbrk from position `from`: the index of the first byte of s
\* in the set cs, 0 for a null result
FirstOf(s, cs, from) ==
    LET hits == {i \in from..Len(s) : s[i] \in cs}
    IN IF hits = {} THEN 0 ELSE CHOOSE i \in hits : \A j \in hits : i <= j

\* strncmp(s + (at - 1), t, Len(t)) == 0
StartsAt(s, at, t) ==
    /\ at >= 1
    /\ at + Len(t) - 1 <= Len(s)
    /\ SubSeq(s, at, at + Len(t) - 1) = t

\* snprintf(buf, size, ...): at most size - 1 bytes are kept
Snprintf(size, text) == Take(text, size - 1)

----------------------------------------------------------------------------
(* get_line: read byte by byte, at most len - 1 bytes, up to and including *)
(* a line feed.  avail is what the descriptor holds.  The result is the    *)
(* buffer, what is left in the descriptor, and whether the last read gave  *)
(* a byte (ret = 0) or not (ret = -1, or the read blocks).                 *)

GetLine(avail, len) ==
    LET max == len - 1
        nl == FirstOf(avail, {"\n"}, 1)
    IN IF nl # 0 /\ nl <= max
       THEN [buf |-> Take(avail, nl), rest |-> Drop(avail, nl), short |-> FALSE]
       ELSE IF Len(avail) >= max
       THEN [buf |-> Take(avail, max), rest |-> Drop(avail, max), short |-> FALSE]
       ELSE [buf |-> avail, rest |-> <<>>, short |-> TRUE]

----------------------------------------------------------------------------
(* irc_write: the bytes handed to write() *)

IrcFrame(text) == Snprintf(BUFLEN, text \o CRLF)


----------------------------------------------------------------------------
(* text_handle, the part that computes *)

\* snprintf(line, 450, "PRIVMSG %s :", channel)
TextPrefix(ch) == Snprintf(TEXT_BUFLEN, S_PRIVMSG_SP \o ch \o S_SP_COLON)

\* len = 450 - len: the room get_line is given
TextReserve(ch) == TEXT_BUFLEN - Len(TextPrefix(ch))

\* StripNL without the strip: the line feed stays in the frame
StripNL_Keep(l) == l

\* if((p = strchr(line, '\n'))) *p = '\0'
StripNL(l) ==
    LET nl == FirstOf(l, {"\n"}, 1)
    IN IF nl = 0 THEN l ELSE Take(l, nl - 1)

\* the text handed to irc_write for what get_line left in the buffer
TextLine(ch, buf) == StripNL(TextPrefix(ch) \o buf)

----------------------------------------------------------------------------
(* irc_handle, the part after get_line: what it writes to the connection   *)
(* (out), what it writes to the program (fwd), and whether it went through *)
(* a null pointer (ub).                                                    *)

\* PingToPong writing line[0]
PingToPong_FirstByte(l) == [l EXCEPT ![1] = "O"]

\* line[1] = 'O'
PingToPong(l) == [l EXCEPT ![2] = "O"]

\* VersionNick cutting at the '@' of the prefix
VersionNick_AtHost(l) ==
    LET b == FirstOf(l, {"@"}, 1)
    IN IF b >= 2 THEN SubSeq(l, 2, b - 1) ELSE Tail(l)

\* nick = line + 1, cut at the first '!' of the line when there is one
VersionNick(l) ==
    LET b == FirstOf(l, {"!"}, 1)
    IN IF b >= 2 THEN SubSeq(l, 2, b - 1) ELSE Tail(l)

VersionReply(l) == Snprintf(BUFLEN, S_NOTICE_SP \o VersionNick(l) \o S_VERSION_REPLY)

IrcProcess(raw) ==
    LET e == FirstOf(raw, {"\r", "\n"}, 1)
        l1 == IF e = 0 THEN raw ELSE Take(raw, e - 1)
        ping == StartsAt(l1, 1, S_PING5)
        l2 == IF ping THEN PingToPong(l1) ELSE l1
        pong == IF ping THEN <<l2>> ELSE <<>>
        p == FirstOf(l2, {" "}, 1)
        priv == p # 0 /\ StartsAt(l2, p, S_SP_PRIVMSG_SP)
        l3 == l2 \o <<"\n">>
        q == FirstOf(l3, {":"}, p)
        ver == q # 0 /\ Drop(l3, q - 1) = S_CTCP_VERSION_NL
    IN IF ~priv THEN [out |-> pong, fwd |-> <<>>, ub |-> FALSE]
       ELSE IF e = 0 THEN [out |-> pong, fwd |-> <<>>, ub |-> TRUE]
       ELSE IF q = 0 THEN [out |-> pong, fwd |-> <<>>, ub |-> TRUE]
       ELSE [out |-> IF ver THEN pong \o <<VersionReply(l3)>> ELSE pong,
             fwd |-> <<Drop(l3, q)>>, ub |-> FALSE]

----------------------------------------------------------------------------
(* irc_connect: the frames of the handshake *)

NickMsg == Snprintf(BUFLEN, S_NICK_SP \o nickname)

UserMsg == Snprintf(BUFLEN, S_USER_SP \o nickname \o S_LOCALHOST \o server \o S_SP_COLON \o fullname)

IdentifyMsg(pw) == Snprintf(BUFLEN, S_IDENTIFY \o nickname \o <<" ">> \o pw)

JoinMsg(ch) == Snprintf(BUFLEN, S_JOIN_SP \o ch)

\* main, the timeout branch: snprintf(msg, BUFLEN, "PING :%s", server)
PingMsg == Snprintf(BUFLEN, S_PING_COLON \o server)

\* IdleExpired with >= for >
IdleExpired_Geq(t, recv) == t >= recv + IDLE_LIMIT_SEC

\* time(NULL) > recv_time + 600
IdleExpired(t, recv) == t > recv + IDLE_LIMIT_SEC

----------------------------------------------------------------------------
(* What the outside world can send *)

TestChannel == <<"#","t","e","s","t">>

\* written to the local pipe: a short line, a piece of a line, and the
\* longest line that fits the room text_handle gives get_line
PipeChunks(ch) ==
    { <<"h","e","l","l","o","\n">>,
      <<"h","e","l">>,
      Rep("a", TextReserve(ch) - 1) \o <<"\n">> }

\* two lines in one write
PipeBursts == { <<"a","\n","b","\n">> }

\* written by the program to its standard output
ProgChunks == { <<"o","k","\n">> }

\* lines the server sends
RemoteLines ==
    { <<"P","I","N","G"," ",":","x","y","z","\r","\n">>,
      <<"P","I","N","G","X"," ",":","x","y","z","\r","\n">>,
      <<":","a","l","i","c","e","!","u","@","h"," ","P","R","I","V","M","S","G"," ","b","o","t"," ",":","^A","V","E","R","S","I","O","N","^A","\r","\n">>,
      <<":","b","o","b","!","v","@","2","0","0","1",":","d","b","8",":",":","1"," ","P","R","I","V","M","S","G"," ","#","t","e","s","t"," ",":","^A","V","E","R","S","I","O","N","^A","\n">>,
      <<":","a","l","i","c","e","!","u","@","h"," ","P","R","I","V","M","S","G"," ","b","o","t"," ",":","^A","V","E","R","S","I","O","N","^A"," ","\r","\n">>,
      <<":","a","l","i","c","e","!","u","@","h"," ","P","R","I","V","M","S","G"," ","b","o","t"," ",":","h","i","\r","\n">>,
      <<":","s","r","v"," ","N","O","T","I","C","E"," ","b","o","t"," ",":","P","I","N","G"," ","m","e","\r","\n">>,
      <<":","a","l","i","c","e","!","u","@","h"," ","P","R","I","V","M","S","G"," ","b","o","t","\r","\n">>,
      <<"P","I","N","G"," ","P","R","I","V","M","S","G"," ","b","o","t"," ",":","h","i","\r","\n">> }

\* a line longer than the buffer irc_handle reads into
LongLines == { S_PING5 \o Rep("x", BUFLEN - 1 - Len(S_PING5)) \o CRLF }

\* a VERSION query whose sender prefix has no '!'
BareSenderLines ==
    { <<":","s","r","v"," ","P","R","I","V","M","S","G"," ","b","o","t"," ",":","^A","V","E","R","S","I","O","N","^A","\r","\n">> }

\* the beginning of a line, the rest of which the server has not sent
RemotePieces ==
    { <<"P","I","N","G"," ","a","b","c">>,
      <<":","a","!","u"," ","P","R","I","V","M","S","G"," ","b","o","t"," ",":","h","i">> }

\* how poll reports a connection the server closed: readable (end of
\* stream), hung up, or both
CloseModes == { {"IN"}, {"HUP"}, {"IN", "HUP"} }

NoEvent == [kind |-> "none", data |-> <<>>, mode |-> {}]

PipeEvents(ch) ==
    {NoEvent}
    \cup {[kind |-> "write", data |-> d, mode |-> {}] : d \in PipeChunks(ch)}
    \cup {[kind |-> "wclose", data |-> d, mode |-> {}] : d \in PipeChunks(ch)}
    \cup {[kind |-> "close", data |-> <<>>, mode |-> {}]}

\* the pipe's writer may also write several lines before it closes
PipeEventsWide(ch) ==
    PipeEvents(ch)
    \cup {[kind |-> "wclose", data |-> d, mode |-> {}] : d \in PipeBursts}

ProgEvents(has) ==
    IF ~has THEN {NoEvent}
    ELSE {NoEvent}
         \cup {[kind |-> "write", data |-> d, mode |-> {}] : d \in ProgChunks}
         \cup {[kind |-> "close", data |-> <<>>, mode |-> {}]}

RemoteEvents ==
    {NoEvent}
    \cup {[kind |-> "write", data |-> d, mode |-> {}] : d \in RemoteLines}
    \cup {[kind |-> "close", data |-> <<>>, mode |-> m] : m \in CloseModes}

\* the server may also send over-long lines and lines in pieces
RemoteEventsWide ==
    RemoteEvents
    \cup {[kind |-> "write", data |-> d, mode |-> {}] :
              d \in LongLines \cup BareSenderLines \cup RemotePieces}

Cost(e) == IF e.kind = "none" THEN 0 ELSE 1

----------------------------------------------------------------------------
(* State *)

VARIABLES
    channel, nspasswd, reconnect, program,   \* configuration (main, getopt)
    pc,             \* where the process is
    ret,            \* where irc_connect returns to
    sig_installed,  \* signal(SIGINT/SIGTERM/SIGHUP, quit) has run
    irc_fd,         \* the connection irc_fd was opened for, 0 for -1
    irc_open,       \* irc_fd has not been closed
    recv_time,      \* the idle timer
    line,           \* the line buffer of the handler that runs
    short,          \* get_line returned -1
    revents,        \* what poll reported, per source
    now,            \* time(NULL)
    conns,          \* connections opened so far
    fifo_buf, fifo_hup,     \* the pipe: unread bytes, writer gone
    prog_buf, prog_eof,     \* the program's stream: unread bytes, closed
    irc_in, irc_closed,     \* the connection: unread bytes, how it closed
    events, wakes,          \* what the outside world and poll have done
    wire,           \* every frame written to a connection, in order
    prog_in,        \* every body written to the program
    exit_status, exit_cause,
    wake,           \* the wake-up that is being handled
    ev              \* the operation that has just completed

vars == <<channel, nspasswd, reconnect, program, pc, ret, sig_installed,
          irc_fd, irc_open, recv_time, line, short, revents, now, conns,
          fifo_buf, fifo_hup, prog_buf, prog_eof, irc_in, irc_closed,
          events, wakes, wire, prog_in, exit_status, exit_cause, wake, ev>>

config == <<channel, nspasswd, reconnect, program>>

pipe == <<fifo_buf, fifo_hup>>

prog == <<prog_buf, prog_eof>>

remote == <<irc_in, irc_closed>>

NoRevents == [fifo |-> {}, irc |-> {}, prog |-> {}]

NoWake == [kind |-> "none", start |-> 0, ndisc |-> 0, checked |-> FALSE,
           elapsed |-> 0, fd0 |-> 0, recv0 |-> 0, only_hup |-> FALSE]

NoEv == [op |-> "none", src |-> "none", before |-> <<>>, start |-> 0, fwd0 |-> 0]

Init ==
    /\ channel = TestChannel
    /\ nspasswd \in {NULL, <<"p","w">>}
    /\ reconnect \in BOOLEAN
    /\ program \in BOOLEAN
    /\ pc = "main_connect"
    /\ ret = "main_signal"
    /\ sig_installed = FALSE
    /\ irc_fd = 0
    /\ irc_open = FALSE
    /\ recv_time = 0
    /\ line = <<>>
    /\ short = FALSE
    /\ revents = NoRevents
    /\ now = StartTime
    /\ conns = 0
    /\ fifo_buf = <<>> /\ fifo_hup = FALSE
    /\ prog_buf = <<>> /\ prog_eof = FALSE
    /\ irc_in = <<>> /\ irc_closed = {}
    /\ events = 0 /\ wakes = 0
    /\ wire = <<>>
    /\ prog_in = <<>>
    /\ exit_status = "none" /\ exit_cause = "none"
    /\ wake = NoWake
    /\ ev = NoEv

----------------------------------------------------------------------------
(* irc_write(irc_fd, text): the frame reaches the connection when the      *)
(* descriptor is open; dead records that the server had already closed.    *)

Written(text) ==
    IF irc_open
    THEN Append(wire, [fd |-> irc_fd, data |-> IrcFrame(text), dead |-> irc_closed # {}])
    ELSE wire

\* exit(status)
Exit(status, cause) ==
    /\ pc' = "exit"
    /\ exit_status' = status
    /\ exit_cause' = cause

Running == pc \notin {"exit", "crashed", "killed"}

----------------------------------------------------------------------------
(* irc_connect and irc_disconnect *)

\* ConnectTcp trying again, instead of exiting, when reconnect is set
ConnectTcp_Retry ==
    /\ pc \in {"main_connect", "connect_tcp"}
    /\ \/ /\ conns < MaxConn
          /\ conns' = conns + 1
          /\ irc_fd' = conns + 1
          /\ irc_open' = TRUE
          /\ irc_in' = <<>>
          /\ irc_closed' = {}
          /\ pc' = "hs_nick"
          /\ ev' = NoEv
          /\ UNCHANGED <<exit_status, exit_cause>>
       \/ /\ irc_fd' = 0
          /\ IF reconnect
             THEN pc' = "connect_tcp" /\ UNCHANGED <<exit_status, exit_cause>>
             ELSE Exit("failure", "connect_fail")
          /\ ev' = [NoEv EXCEPT !.op = "connect_fail", !.start = Len(wire)]
          /\ UNCHANGED <<conns, irc_open, irc_in, irc_closed>>
    /\ UNCHANGED <<config, ret, sig_installed, recv_time, line, short, revents,
                   now, pipe, prog, events, wakes, wire, prog_in, wake>>

\* irc_fd = make_tcp(server, port); if(irc_fd == -1) exit(EXIT_FAILURE)
ConnectTcp ==
    /\ pc \in {"main_connect", "connect_tcp"}
    /\ \/ /\ conns < MaxConn
          /\ conns' = conns + 1
          /\ irc_fd' = conns + 1
          /\ irc_open' = TRUE
          /\ irc_in' = <<>>
          /\ irc_closed' = {}
          /\ pc' = "hs_nick"
          /\ ev' = NoEv
          /\ UNCHANGED <<exit_status, exit_cause>>
       \/ /\ irc_fd' = 0
          /\ Exit("failure", "connect_fail")
          /\ ev' = [NoEv EXCEPT !.op = "connect_fail", !.start = Len(wire)]
          /\ UNCHANGED <<conns, irc_open, irc_in, irc_closed>>
    /\ UNCHANGED <<config, ret, sig_installed, recv_time, line, short, revents,
                   now, pipe, prog, events, wakes, wire, prog_in, wake>>

HsNick ==
    /\ pc = "hs_nick"
    /\ wire' = Written(NickMsg)
    /\ pc' = "hs_user"
    /\ ev' = NoEv
    /\ UNCHANGED <<config, ret, sig_installed, irc_fd, irc_open, recv_time, line,
                   short, revents, now, conns, pipe, prog, remote, events, wakes,
                   prog_in, exit_status, exit_cause, wake>>

\* HsUser never going to the identify frame
HsUser_NoIdentify ==
    /\ pc = "hs_user"
    /\ wire' = Written(UserMsg)
    /\ pc' = "hs_join"
    /\ ev' = NoEv
    /\ UNCHANGED <<config, ret, sig_installed, irc_fd, irc_open, recv_time, line,
                   short, revents, now, conns, pipe, prog, remote, events, wakes,
                   prog_in, exit_status, exit_cause, wake>>

HsUser ==
    /\ pc = "hs_user"
    /\ wire' = Written(UserMsg)
    /\ pc' = IF nspasswd # NULL THEN "hs_pass" ELSE "hs_join"
    /\ ev' = NoEv
    /\ UNCHANGED <<config, ret, sig_installed, irc_fd, irc_open, recv_time, line,
                   short, revents, now, conns, pipe, prog, remote, events, wakes,
                   prog_in, exit_status, exit_cause, wake>>

HsPass ==
    /\ pc = "hs_pass"
    /\ wire' = Written(IdentifyMsg(nspasswd))
    /\ pc' = "hs_join"
    /\ ev' = NoEv
    /\ UNCHANGED <<config, ret, sig_installed, irc_fd, irc_open, recv_time, line,
                   short, revents, now, conns, pipe, prog, remote, events, wakes,
                   prog_in, exit_status, exit_cause, wake>>

\* the JOIN frame, recv_time = time(NULL), and the return
HsJoin ==
    /\ pc = "hs_join"
    /\ wire' = Written(JoinMsg(channel))
    /\ recv_time' = now
    /\ pc' = ret
    /\ ev' = [NoEv EXCEPT !.op = "irc_connect"]
    /\ UNCHANGED <<config, ret, sig_installed, irc_fd, irc_open, line,
                   short, revents, now, conns, pipe, prog, remote, events, wakes,
                   prog_in, exit_status, exit_cause, wake>>

\* main: signal(SIGINT, quit); signal(SIGTERM, quit); signal(SIGHUP, quit)
MainSignal ==
    /\ pc = "main_signal"
    /\ sig_installed' = TRUE
    /\ pc' = "poll"
    /\ ev' = NoEv
    /\ UNCHANGED <<config, ret, irc_fd, irc_open, recv_time, line, short, revents,
                   now, conns, pipe, prog, remote, events, wakes, wire, prog_in,
                   exit_status, exit_cause, wake>>

\* irc_disconnect: close(irc_fd)
DiscClose ==
    /\ pc = "disc_close"
    /\ irc_open' = FALSE
    /\ wake' = [wake EXCEPT !.ndisc = @ + 1]
    /\ pc' = "disc_policy"
    /\ ev' = NoEv
    /\ UNCHANGED <<config, ret, sig_installed, irc_fd, recv_time, line, short,
                   revents, now, conns, pipe, prog, remote, events, wakes, wire,
                   prog_in, exit_status, exit_cause>>

\* irc_disconnect: if(reconnect) irc_connect(); else exit(EXIT_FAILURE)
DiscPolicy ==
    /\ pc = "disc_policy"
    /\ IF reconnect
       THEN pc' = "connect_tcp" /\ UNCHANGED <<exit_status, exit_cause>>
       ELSE Exit("failure", "disconnect")
    /\ ev' = NoEv
    /\ UNCHANGED <<config, ret, sig_installed, irc_fd, irc_open, recv_time, line,
                   short, revents, now, conns, pipe, prog, remote, events, wakes,
                   wire, prog_in, wake>>

----------------------------------------------------------------------------
(* main: the loop *)

DispatchPc == <<"fifo_in", "fifo_hup", "irc_in", "irc_hup", "prog_in", "prog_hup">>

\* the tests of revents, in the order main makes them
Bit(rv, has, k) ==
    CASE k = 1 -> "IN" \in rv.fifo
      [] k = 2 -> "HUP" \in rv.fifo
      [] k = 3 -> "IN" \in rv.irc
      [] k = 4 -> "HUP" \in rv.irc
      [] k = 5 -> has /\ "IN" \in rv.prog
      [] k = 6 -> has /\ "HUP" \in rv.prog

\* the next handler main calls after test k, or the next poll
NextDispatch(rv, has, k) ==
    LET S == {j \in (k + 1)..6 : Bit(rv, has, j)}
    IN IF S = {} THEN "poll"
       ELSE DispatchPc[CHOOSE j \in S : \A i \in S : j <= i]

\* something poll reports is there from before the call
Unread == fifo_buf # <<>> \/ prog_buf # <<>> \/ irc_in # <<>> \/ irc_closed # {}

Flags(in, hup) == (IF in THEN {"IN"} ELSE {}) \cup (IF hup THEN {"HUP"} ELSE {})

\* seconds a poll that finds a source ready has waited: none when something
\* was left unread by the last wake-up, ReadyWait for something new
ReadyDelays(pending) == IF pending THEN {0} ELSE {ReadyWait}

\* seconds a poll that times out may have taken, as time() counts them
TimeoutDelays == {POLL_TIMEOUT_SEC, POLL_TIMEOUT_SEC + 1}

\* c = poll(fd, i, 600000) returning 0 or more: the outside world acts,
\* poll reports what is ready, and main goes to the branch for it.  FE and IE
\* are what the pipe's writers and the server may do.
PollOn(FE, IE) ==
    /\ pc = "poll"
    /\ wakes < MaxWake
    /\ \E fe \in FE, ie \in IE, pe \in ProgEvents(program) :
         /\ events + Cost(fe) + Cost(ie) + Cost(pe) <= MaxEvents
         /\ ie.kind # "none" => irc_closed = {}
         /\ LET fb == fifo_buf \o fe.data
                fh == fifo_hup \/ fe.kind \in {"close", "wclose"}
                ib == irc_in \o ie.data
                ic == IF ie.kind \in {"close", "wclose"} THEN ie.mode ELSE irc_closed
                pb == prog_buf \o pe.data
                pe_eof == prog_eof \/ pe.kind = "close"
                rv == [fifo |-> Flags(fb # <<>>, fh),
                       irc |-> Flags(ib # <<>> \/ "IN" \in ic, "HUP" \in ic),
                       prog |-> IF program THEN Flags(pb # <<>> \/ pe_eof, pe_eof) ELSE {}]
            IN /\ fifo_buf' = fb /\ fifo_hup' = fh
               /\ irc_in' = ib /\ irc_closed' = ic
               /\ prog_buf' = pb /\ prog_eof' = pe_eof
               /\ revents' = rv
               /\ events' = events + Cost(fe) + Cost(ie) + Cost(pe)
               /\ \E d \in IF rv = NoRevents THEN TimeoutDelays
                            ELSE ReadyDelays(Unread) :
                      now' = now + d
               /\ pc' = IF rv = NoRevents THEN "idle_check" ELSE NextDispatch(rv, program, 0)
               /\ wake' = [kind |-> IF rv = NoRevents THEN "timeout" ELSE "ready",
                           start |-> Len(wire), ndisc |-> 0, checked |-> FALSE,
                           elapsed |-> 0, fd0 |-> irc_fd, recv0 |-> recv_time,
                           only_hup |-> /\ rv.irc = {} /\ fb = <<>> /\ pb = <<>>
                                        /\ rv # NoRevents]
    /\ wakes' = wakes + 1
    /\ ev' = NoEv
    /\ UNCHANGED <<config, ret, sig_installed, irc_fd, irc_open, recv_time, line,
                   short, conns, wire, prog_in, exit_status, exit_cause>>

Poll == PollOn(PipeEvents(channel), RemoteEvents)

PollWide == PollOn(PipeEventsWide(channel), RemoteEventsWide)

\* c == -1: perror, break
PollError ==
    /\ pc = "poll"
    /\ pc' = "quit0"
    /\ ev' = NoEv
    /\ UNCHANGED <<config, ret, sig_installed, irc_fd, irc_open, recv_time, line,
                   short, revents, now, conns, pipe, prog, remote, events, wakes,
                   wire, prog_in, exit_status, exit_cause, wake>>

\* c == 0: if(time(NULL) > recv_time + 600) irc_disconnect()
IdleCheck ==
    /\ pc = "idle_check"
    /\ IF IdleExpired(now, recv_time)
       THEN pc' = "disc_close" /\ ret' = "ping"
       ELSE pc' = "ping" /\ ret' = ret
    /\ wake' = [wake EXCEPT !.checked = TRUE, !.elapsed = now - recv_time]
    /\ ev' = NoEv
    /\ UNCHANGED <<config, sig_installed, irc_fd, irc_open, recv_time, line,
                   short, revents, now, conns, pipe, prog, remote, events, wakes,
                   wire, prog_in, exit_status, exit_cause>>

\* TimeoutPing as the else branch of the idle check: no probe after a
\* disconnect
TimeoutPing_OnlyIfAlive ==
    /\ pc = "ping"
    /\ wire' = IF wake.ndisc = 0 THEN Written(PingMsg) ELSE wire
    /\ pc' = "poll"
    /\ ev' = [NoEv EXCEPT !.op = "timeout"]
    /\ UNCHANGED <<config, ret, sig_installed, irc_fd, irc_open, recv_time, line,
                   short, revents, now, conns, pipe, prog, remote, events, wakes,
                   prog_in, exit_status, exit_cause, wake>>

\* c == 0: snprintf(msg, BUFLEN, "PING :%s", server); irc_write(irc_fd, msg)
TimeoutPing ==
    /\ pc = "ping"
    /\ wire' = Written(PingMsg)
    /\ pc' = "poll"
    /\ ev' = [NoEv EXCEPT !.op = "timeout"]
    /\ UNCHANGED <<config, ret, sig_installed, irc_fd, irc_open, recv_time, line,
                   short, revents, now, conns, pipe, prog, remote, events, wakes,
                   prog_in, exit_status, exit_cause, wake>>

----------------------------------------------------------------------------
(* quit *)

\* quit(0) after the loop: irc_write(irc_fd, "QUIT"); exit(EXIT_SUCCESS)
QuitAfterLoop ==
    /\ pc = "quit0"
    /\ wire' = Written(S_QUIT)
    /\ Exit("success", "fatal")
    /\ ev' = [NoEv EXCEPT !.op = "quit", !.src = "quit0"]
    /\ UNCHANGED <<config, ret, sig_installed, irc_fd, irc_open, recv_time, line,
                   short, revents, now, conns, pipe, prog, remote, events, wakes,
                   prog_in, wake>>

\* quit(sig), the handler of SIGINT, SIGTERM and SIGHUP, wherever main is
QuitSignal ==
    /\ Running
    /\ sig_installed
    /\ wire' = Written(S_QUIT)
    /\ Exit("success", "signal")
    /\ ev' = [NoEv EXCEPT !.op = "quit", !.src = pc]
    /\ UNCHANGED <<config, ret, sig_installed, irc_fd, irc_open, recv_time, line,
                   short, revents, now, conns, pipe, prog, remote, events, wakes,
                   prog_in, wake>>

\* a signal before main installed quit: the default action ends the process
SignalDefault ==
    /\ Running
    /\ ~sig_installed
    /\ pc' = "killed"
    /\ ev' = NoEv
    /\ UNCHANGED <<config, ret, sig_installed, irc_fd, irc_open, recv_time, line,
                   short, revents, now, conns, pipe, prog, remote, events, wakes,
                   wire, prog_in, exit_status, exit_cause, wake>>

----------------------------------------------------------------------------
(* text_handle *)

\* text_handle(fifo_fd), up to get_line.  The pipe is opened O_NONBLOCK: a
\* read that finds no byte ends get_line.
FifoRead ==
    /\ pc = "fifo_in"
    /\ LET r == GetLine(fifo_buf, TextReserve(channel))
       IN /\ line' = r.buf
          /\ short' = r.short
          /\ fifo_buf' = r.rest
    /\ pc' = "fifo_write"
    /\ ev' = [NoEv EXCEPT !.op = "get_line", !.src = "fifo", !.before = fifo_buf]
    /\ UNCHANGED <<config, ret, sig_installed, irc_fd, irc_open, recv_time,
                   revents, now, conns, fifo_hup, prog, remote, events, wakes,
                   wire, prog_in, exit_status, exit_cause, wake>>

\* text_handle(program_fd), up to get_line.  The socket blocks: get_line
\* ends on a full line, a full buffer or the end of the stream.
ProgRead ==
    /\ pc = "prog_in"
    /\ LET r == GetLine(prog_buf, TextReserve(channel))
       IN /\ r.short => prog_eof
          /\ line' = r.buf
          /\ short' = r.short
          /\ prog_buf' = r.rest
    /\ pc' = "prog_write"
    /\ ev' = [NoEv EXCEPT !.op = "get_line", !.src = "prog", !.before = prog_buf]
    /\ UNCHANGED <<config, ret, sig_installed, irc_fd, irc_open, recv_time,
                   revents, now, conns, pipe, prog_eof, remote, events, wakes,
                   wire, prog_in, exit_status, exit_cause, wake>>

\* text_handle, after get_line: strip the line feed, irc_write(irc_fd, line)
TextWrite ==
    /\ pc \in {"fifo_write", "prog_write"}
    /\ wire' = Written(TextLine(channel, line))
    /\ pc' = NextDispatch(revents, program, IF pc = "fifo_write" THEN 1 ELSE 5)
    /\ ev' = [op |-> "text_handle", src |-> ev.src, before |-> ev.before,
              start |-> Len(wire), fwd0 |-> Len(prog_in)]
    /\ UNCHANGED <<config, ret, sig_installed, irc_fd, irc_open, recv_time, line,
                   short, revents, now, conns, pipe, prog, remote, events, wakes,
                   prog_in, exit_status, exit_cause, wake>>

----------------------------------------------------------------------------
(* make_fifo and start_program, as main calls them on POLLHUP *)

\* if(make_fifo() == -1) break.  Closing the pipe nobody writes to drops
\* what it still holds; the new pipe has had no writer.
MakeFifo ==
    /\ pc = "fifo_hup"
    /\ \/ /\ fifo_buf' = <<>>
          /\ fifo_hup' = FALSE
          /\ pc' = NextDispatch(revents, program, 2)
       \/ /\ pc' = "quit0"
          /\ UNCHANGED <<fifo_buf, fifo_hup>>
    /\ ev' = [NoEv EXCEPT !.op = "make_fifo", !.before = fifo_buf]
    /\ UNCHANGED <<config, ret, sig_installed, irc_fd, irc_open, recv_time, line,
                   short, revents, now, conns, prog, remote, events, wakes, wire,
                   prog_in, exit_status, exit_cause, wake>>

\* if(start_program() == -1) break
StartProgram ==
    /\ pc = "prog_hup"
    /\ \/ /\ prog_buf' = <<>>
          /\ prog_eof' = FALSE
          /\ pc' = "poll"
       \/ /\ pc' = "quit0"
          /\ UNCHANGED <<prog_buf, prog_eof>>
    /\ ev' = [NoEv EXCEPT !.op = "start_program"]
    /\ UNCHANGED <<config, ret, sig_installed, irc_fd, irc_open, recv_time, line,
                   short, revents, now, conns, pipe, remote, events, wakes, wire,
                   prog_in, exit_status, exit_cause, wake>>

----------------------------------------------------------------------------
(* irc_handle *)

\* if(get_line(irc_fd, line, BUFLEN) == -1) irc_disconnect().  The socket
\* blocks: get_line ends on a full line, a full buffer or the end of the
\* stream.
IrcRead ==
    /\ pc = "irc_in"
    /\ LET r == GetLine(irc_in, BUFLEN)
       IN /\ r.short => irc_closed # {}
          /\ line' = r.buf
          /\ short' = r.short
          /\ irc_in' = r.rest
          /\ IF r.short
             THEN pc' = "disc_close" /\ ret' = "irc_process"
             ELSE pc' = "irc_process" /\ ret' = ret
    /\ ev' = NoEv
    /\ UNCHANGED <<config, sig_installed, irc_fd, irc_open, recv_time,
                   revents, now, conns, pipe, prog, irc_closed, events, wakes,
                   wire, prog_in, exit_status, exit_cause, wake>>

\* get_line inside irc_handle finds no byte and the connection open:
\* read(fd, buf, 1) waits
ReadWaits == GetLine(irc_in, BUFLEN).short /\ irc_closed = {}

\* while read waits, the server sends more or closes
RemoteSends ==
    /\ pc = "irc_in"
    /\ ReadWaits
    /\ events < MaxEvents
    /\ \E ie \in RemoteEventsWide \ {NoEvent} :
         /\ irc_in' = irc_in \o ie.data
         /\ irc_closed' = IF ie.kind = "close" THEN ie.mode ELSE irc_closed
    /\ events' = events + 1
    /\ now' = now + ReadyWait
    /\ ev' = NoEv
    /\ UNCHANGED <<config, pc, ret, sig_installed, irc_fd, irc_open, recv_time,
                   line, short, revents, conns, pipe, prog, wakes, wire, prog_in,
                   exit_status, exit_cause, wake>>

\* irc_write of each text of a sequence, in order
RECURSIVE WrittenAll(_, _, _, _, _)
WrittenAll(w, texts, fd, open, dead) ==
    IF texts = <<>> \/ ~open THEN w
    ELSE WrittenAll(Append(w, [fd |-> fd, data |-> IrcFrame(Head(texts)), dead |-> dead]),
                    Tail(texts), fd, open, dead)

\* IrcHandle forwarding whether a program is configured or not
IrcHandle_ForwardAlways ==
    /\ pc = "irc_process"
    /\ LET r == IrcProcess(line)
       IN /\ wire' = WrittenAll(wire, r.out, irc_fd, irc_open, irc_closed # {})
          /\ prog_in' = prog_in \o r.fwd
          /\ \/ pc' = NextDispatch(revents, program, 3)
             \/ r.ub /\ pc' = "crashed"
    /\ recv_time' = now
    /\ ev' = [op |-> "irc_handle", src |-> IF short THEN "short" ELSE "irc",
              before |-> line, start |-> Len(wire), fwd0 |-> Len(prog_in)]
    /\ UNCHANGED <<config, ret, sig_installed, irc_fd, irc_open, line,
                   short, revents, now, conns, pipe, prog, remote, events, wakes,
                   exit_status, exit_cause, wake>>

\* irc_handle after get_line: the line is cut at its terminator, the idle
\* timer is reset, PING is answered, PRIVMSG is forwarded and a CTCP VERSION
\* answered.  Going through a null pointer ends the process, or does not.
IrcHandle ==
    /\ pc = "irc_process"
    /\ LET r == IrcProcess(line)
       IN /\ wire' = WrittenAll(wire, r.out, irc_fd, irc_open, irc_closed # {})
          /\ prog_in' = IF program THEN prog_in \o r.fwd ELSE prog_in
          /\ \/ pc' = NextDispatch(revents, program, 3)
             \/ r.ub /\ pc' = "crashed"
    /\ recv_time' = now
    /\ ev' = [op |-> "irc_handle", src |-> IF short THEN "short" ELSE "irc",
              before |-> line, start |-> Len(wire), fwd0 |-> Len(prog_in)]
    /\ UNCHANGED <<config, ret, sig_installed, irc_fd, irc_open, line,
                   short, revents, now, conns, pipe, prog, remote, events, wakes,
                   exit_status, exit_cause, wake>>

\* if(fd[1].revents & POLLHUP) irc_disconnect()
IrcHup ==
    /\ pc = "irc_hup"
    /\ pc' = "disc_close"
    /\ ret' = NextDispatch(revents, program, 4)
    /\ ev' = NoEv
    /\ UNCHANGED <<config, sig_installed, irc_fd, irc_open, recv_time, line,
                   short, revents, now, conns, pipe, prog, remote, events, wakes,
                   wire, prog_in, exit_status, exit_cause, wake>>

----------------------------------------------------------------------------

Next ==
    \/ ConnectTcp \/ HsNick \/ HsUser \/ HsPass \/ HsJoin \/ MainSignal
    \/ DiscClose \/ DiscPolicy
    \/ Poll \/ PollError \/ IdleCheck \/ TimeoutPing
    \/ FifoRead \/ ProgRead \/ TextWrite \/ MakeFifo \/ StartProgram
    \/ IrcRead \/ IrcHandle \/ IrcHup
    \/ QuitAfterLoop \/ QuitSignal \/ SignalDefault

Spec == Init /\ [][Next]_vars

\* the same program with the wider inputs: over-long lines, lines in pieces
\* that make read wait, several local lines in one write
NextWide ==
    \/ ConnectTcp \/ HsNick \/ HsUser \/ HsPass \/ HsJoin \/ MainSignal
    \/ DiscClose \/ DiscPolicy
    \/ PollWide \/ PollError \/ IdleCheck \/ TimeoutPing
    \/ FifoRead \/ ProgRead \/ TextWrite \/ MakeFifo \/ StartProgram
    \/ IrcRead \/ RemoteSends \/ IrcHandle \/ IrcHup
    \/ QuitAfterLoop \/ QuitSignal \/ SignalDefault

SpecWide == Init /\ [][NextWide]_vars

----------------------------------------------------------------------------
(* Properties *)

\* a line without the line feed, or CR and line feed, that ends it
Unterminated(l) ==
    IF Len(l) >= 2 /\ SubSeq(l, Len(l) - 1, Len(l)) = CRLF THEN Take(l, Len(l) - 2)
    ELSE IF Len(l) >= 1 /\ l[Len(l)] = "\n" THEN Take(l, Len(l) - 1)
    ELSE l

\* the handler that just ran read a whole line, line feed included
WholeLine == Len(ev.before) >= 1 /\ ev.before[Len(ev.before)] = "\n"

\* the first line of what the local source held when text_handle read it
LocalLine == Take(ev.before, FirstOf(ev.before, {"\n"}, 1) - 1)

LocalLineRead ==
    /\ ev.op = "text_handle"
    /\ FirstOf(ev.before, {"\n"}, 1) # 0
    /\ Len(LocalLine) < TEXT_BUFLEN - Len(S_PRIVMSG_SP \o channel \o S_SP_COLON)

\* C1: a local line L with no embedded terminator and shorter than the
\* payload reserve makes text_handle write exactly the frame
\* "PRIVMSG <channel> :" + L + CRLF to the connection, at most 512 bytes long.
C1_LocalLineFrame ==
    LocalLineRead =>
        /\ Len(wire) = ev.start + 1
        /\ wire[Len(wire)].fd = irc_fd
        /\ wire[Len(wire)].data = S_PRIVMSG_SP \o channel \o S_SP_COLON \o LocalLine \o CRLF
        /\ Len(wire[Len(wire)].data) <= IRC_LINE_MAX

\* channel "#test", local line "hello\n": "PRIVMSG #test :hello\r\n" is written
C1_Witness ==
    /\ LocalLineRead
    /\ channel = <<"#","t","e","s","t">>
    /\ ev.before = <<"h","e","l","l","o","\n">>
    /\ wire[Len(wire)].data = <<"P","R","I","V","M","S","G"," ","#","t","e","s","t"," ",":","h","e","l","l","o","\r","\n">>

\* irc_handle just ran on a whole line of the server
RemoteLineHandled == ev.op = "irc_handle" /\ ev.src = "irc" /\ WholeLine

S_PONG == <<"P","O","N","G">>

\* the frames irc_handle wrote that begin with the bytes of t
RepliesWith(t) == {i \in (ev.start + 1)..Len(wire) : StartsAt(wire[i].data, 1, t)}

\* C2: a whole line from the server that begins with "PING " is answered by
\* exactly one frame, the line with PING replaced by PONG and the rest
\* unchanged; any other line gets no PONG.
C2_PingPong ==
    RemoteLineHandled =>
        IF Take(ev.before, 5) = S_PING5
        THEN /\ Cardinality(RepliesWith(S_PONG)) = 1
             /\ \A i \in RepliesWith(S_PONG) :
                    /\ wire[i].data = S_PONG \o Drop(Unterminated(ev.before), 4) \o CRLF
                    /\ wire[i].fd = irc_fd
        ELSE RepliesWith(S_PONG) = {}

\* "PING :xyz" is answered by "PONG :xyz"
C2_Witness ==
    /\ RemoteLineHandled
    /\ ev.before = <<"P","I","N","G"," ",":","x","y","z","\r","\n">>
    /\ Len(wire) = ev.start + 1
    /\ wire[Len(wire)].data = <<"P","O","N","G"," ",":","x","y","z","\r","\n">>

\* the line read as ":<sender>!<rest> PRIVMSG <target> :<body>"
QueryLine == Unterminated(ev.before)

QuerySpace == FirstOf(QueryLine, {" "}, 1)

QueryBang == FirstOf(QueryLine, {"!"}, 1)

QueryTargetEnd == FirstOf(QueryLine, {" "}, QuerySpace + Len(S_SP_PRIVMSG_SP))

IsDirectedMessage ==
    /\ Len(QueryLine) >= 1 /\ QueryLine[1] = ":"
    /\ QueryBang > 2 /\ QueryBang < QuerySpace
    /\ StartsAt(QueryLine, QuerySpace, S_SP_PRIVMSG_SP)
    /\ QueryTargetEnd # 0
    /\ StartsAt(QueryLine, QueryTargetEnd, S_SP_COLON)

QuerySender == SubSeq(QueryLine, 2, QueryBang - 1)

QueryBody == Drop(QueryLine, QueryTargetEnd + 1)

S_CTCP_VERSION == <<"^A","V","E","R","S","I","O","N","^A">>

S_PRIVMSG == <<"P","R","I","V","M","S","G">>

\* the second space-delimited field of the line
SecondField ==
    LET end == FirstOf(QueryLine, {" "}, QuerySpace + 1)
    IN IF QuerySpace = 0 THEN <<>>
       ELSE SubSeq(QueryLine, QuerySpace + 1, IF end = 0 THEN Len(QueryLine) ELSE end - 1)

\* the first colon after the PRIVMSG token, 0 when there is none
BodyColon == FirstOf(QueryLine, {":"}, QuerySpace + 1 + Len(S_PRIVMSG))

\* a PRIVMSG line whose body, the text after the first colon that follows
\* the token, is exactly the VERSION query
HasVersionBody ==
    /\ SecondField = S_PRIVMSG
    /\ BodyColon # 0
    /\ Drop(QueryLine, BodyColon) = S_CTCP_VERSION

\* C3: a line ":<sender>!<rest> PRIVMSG <target> :\x01VERSION\x01" is answered
\* by exactly one frame "NOTICE <sender> :\x01VERSION fifoirc\x01"; a line
\* whose body is anything else, or that is no PRIVMSG, gets no NOTICE.
C3_VersionReply ==
    RemoteLineHandled =>
        /\ IsDirectedMessage /\ QueryBody = S_CTCP_VERSION =>
               /\ Cardinality(RepliesWith(S_NOTICE_SP)) = 1
               /\ \A i \in RepliesWith(S_NOTICE_SP) :
                      /\ wire[i].data = S_NOTICE_SP \o QuerySender \o S_VERSION_REPLY \o CRLF
                      /\ wire[i].fd = irc_fd
        /\ ~HasVersionBody => RepliesWith(S_NOTICE_SP) = {}

\* the query of alice is answered to alice
C3_Witness ==
    /\ RemoteLineHandled
    /\ IsDirectedMessage
    /\ QuerySender = <<"a","l","i","c","e">>
    /\ QueryBody = S_CTCP_VERSION
    /\ wire[Len(wire)].data = <<"N","O","T","I","C","E"," ","a","l","i","c","e"," ",":","^A","V","E","R","S","I","O","N"," ","f","i","f","o","i","r","c","^A","\r","\n">>

\* C4: in a wake-up on timeout the disconnect policy is applied once when
\* more than 600 seconds have passed since recv_time was set, and not at all
\* when 600 seconds or less have passed.
C4_IdleTimeout ==
    wake.kind = "timeout" =>
        /\ wake.ndisc <= 1
        /\ ~wake.checked => wake.ndisc = 0
        /\ wake.checked /\ wake.elapsed <= 600 => wake.ndisc = 0
        /\ wake.checked /\ wake.elapsed > 600 /\ pc # "disc_close" /\ exit_cause # "signal"
               => wake.ndisc = 1

\* a timeout after more than 600 silent seconds: disconnected once,
\* reconnected, about to send the probe
C4_Witness ==
    /\ wake.kind = "timeout" /\ wake.checked /\ wake.elapsed > 600
    /\ wake.ndisc = 1
    /\ pc = "ping"

\* the probe of the timeout branch, as it goes over the wire
ProbeFrame == S_PING_COLON \o server \o CRLF

\* the probes written in the wake-up that is being handled
Probes == {i \in (wake.start + 1)..Len(wire) : wire[i].data = ProbeFrame}

\* the process ended inside irc_disconnect or irc_connect
EndedInDisconnect == pc = "exit" /\ exit_cause \in {"disconnect", "connect_fail"}

\* C5 as stated: every wake-up on timeout writes exactly one probe, whatever
\* the idle check finds, with reconnect enabled or disabled.
C5_ProbeEveryTimeout ==
    wake.kind = "timeout" /\ (pc = "poll" \/ EndedInDisconnect)
        => Cardinality(Probes) = 1

\* C5 amended: a wake-up on timeout writes exactly one probe, on the
\* connection then current, unless the idle check finds the peer
\* unresponsive and irc_disconnect ends the process (reconnect disabled, or
\* the reconnect failing): then no probe is written.
C5_ProbeUnlessExit ==
    wake.kind = "timeout" =>
        /\ pc = "poll" => /\ Cardinality(Probes) = 1
                          /\ wire[Len(wire)].data = ProbeFrame
                          /\ wire[Len(wire)].fd = irc_fd
        /\ EndedInDisconnect => Probes = {}
        /\ Cardinality(Probes) <= 1

\* the probe goes out on the new connection after an idle reconnect
C5_Witness ==
    /\ wake.kind = "timeout" /\ pc = "poll"
    /\ wake.ndisc = 1
    /\ reconnect
    /\ irc_fd # wake.fd0
    /\ wire[Len(wire)].data = ProbeFrame


\* C6 as stated: a wake-up in which poll reports nothing but a hang-up of the
\* local pipe or the end of the program's stream, and in which the source is
\* recreated, writes no frame to the connection and leaves irc_fd and the
\* idle timer as they were.
C6_LocalHangupOnly ==
    wake.only_hup /\ pc # "exit" =>
        /\ Len(wire) = wake.start
        /\ irc_fd = wake.fd0
        /\ recv_time = wake.recv0

\* C7 as stated: with reconnect enabled, no local line is written to a
\* connection the server has closed.
C7_NoLineOnClosed ==
    reconnect /\ ev.op = "text_handle" /\ Len(wire) = ev.start + 1
        => ~wire[Len(wire)].dead

OnCurrent(w) == w.fd = irc_fd

\* the frames of the handshake, in order
Handshake ==
    << S_NICK_SP \o nickname \o CRLF,
       S_USER_SP \o nickname \o S_LOCALHOST \o server \o S_SP_COLON \o fullname \o CRLF >>
    \o (IF nspasswd # NULL
        THEN << S_IDENTIFY \o nickname \o <<" ">> \o nspasswd \o CRLF >>
        ELSE << >>)
    \o << S_JOIN_SP \o channel \o CRLF >>

\* C8: when irc_connect returns, the new connection has been written NICK,
\* USER, the NickServ identify if and only if a secret is configured, and
\* JOIN, in this order with nothing in between, and recv_time is the
\* current time.
C8_Handshake ==
    ev.op = "irc_connect" =>
        LET mine == SelectSeq(wire, OnCurrent)
            n == Len(Handshake)
        IN /\ [i \in 1..Len(mine) |-> mine[i].data] = Handshake
           /\ Len(wire) >= n
           /\ \A i \in (Len(wire) - n + 1)..Len(wire) : wire[i].fd = irc_fd
           /\ recv_time = now

\* a reconnect with a secret configured: four frames on the new connection
C8_Witness ==
    /\ ev.op = "irc_connect"
    /\ conns >= 2
    /\ nspasswd # NULL
    /\ Len(SelectSeq(wire, OnCurrent)) = 4
    /\ now > StartTime

QuitFrames == {i \in 1..Len(wire) : wire[i].data = S_QUIT \o CRLF}

\* C9 as stated, with reconnect enabled: a termination signal, wherever it
\* arrives in the loop, has exactly one QUIT written to the connection
\* irc_fd names, as the last frame, and the process exits with success.
C9_QuitOnSignal ==
    reconnect /\ exit_cause = "signal" =>
        /\ exit_status = "success"
        /\ Cardinality(QuitFrames) = 1
        /\ wire[Len(wire)].data = S_QUIT \o CRLF
        /\ wire[Len(wire)].fd = irc_fd

\* C10 as stated: a fatal error inside the loop ends the process with
\* failure status, after a QUIT on the connection.
C10_FatalExitsFailure ==
    exit_cause = "fatal" =>
        /\ wire[Len(wire)].data = S_QUIT \o CRLF
        /\ exit_status = "failure"

\* C11: when make_tcp fails, at startup or inside a reconnect, the process
\* exits with failure status at once: irc_fd is -1, no frame is written after
\* the failure, no further connection is opened and nothing else runs, with
\* reconnect set or not.
C11_ConnectFailFatal ==
    /\ ev.op = "connect_fail" =>
           /\ pc = "exit"
           /\ exit_status = "failure" /\ exit_cause = "connect_fail"
           /\ irc_fd = 0
           /\ Len(wire) = ev.start
           /\ \A i \in 1..Len(wire) : wire[i].fd <= conns
    /\ exit_cause = "connect_fail" => ev.op = "connect_fail"

\* the connect of an automatic reconnect fails: the process has exited, the
\* last frames on the wire belong to the connection that was lost
C11_Witness ==
    /\ ev.op = "connect_fail"
    /\ reconnect
    /\ conns >= 1
    /\ pc = "exit" /\ exit_status = "failure"
    /\ wire # <<>> /\ wire[Len(wire)].fd = conns

\* a frame ends with the protocol's terminator
EndsWithCRLF(f) == Len(f) >= 2 /\ SubSeq(f, Len(f) - 1, Len(f)) = CRLF

\* C12 as stated: every frame irc_write puts on the connection is at most 512
\* bytes long, terminator included, and ends with CR LF.
C12_FrameBound ==
    \A i \in 1..Len(wire) :
        /\ Len(wire[i].data) <= IRC_LINE_MAX
        /\ EndsWithCRLF(wire[i].data)

\* C13 as stated: a frame that text_handle writes for the pipe carries one
\* complete line: a line feed was there when get_line read (a piece is not
\* emitted before the line is complete), and the line is consumed up to it
\* (nothing of the line is left to become another frame).
C13_OneFramePerLine ==
    ev.op = "text_handle" /\ ev.src = "fifo" =>
        LET nl == FirstOf(ev.before, {"\n"}, 1)
        IN /\ nl # 0
           /\ fifo_buf = Drop(ev.before, nl)

\* the bodies irc_handle has just written to the program
Forwarded == SubSeq(prog_in, ev.fwd0 + 1, Len(prog_in))

\* C14 as stated: no line of the server triggers both the PONG reply and the
\* handling of a directed message (a body forwarded to the program, or a
\* NOTICE in answer to a VERSION query).
C14_OneEventPerLine ==
    RemoteLineHandled =>
        ~ /\ RepliesWith(S_PONG) # {}
          /\ Forwarded # <<>> \/ RepliesWith(S_NOTICE_SP) # {}

\* C15: for a whole line whose second space-delimited field is PRIVMSG, the
\* text after the first colon that follows the token, with one line feed
\* after it, is written once to the program when a program is configured;
\* nothing is written when no program is configured, when no colon follows,
\* or when the second field is not PRIVMSG.
C15_ForwardBody ==
    RemoteLineHandled =>
        IF SecondField = S_PRIVMSG /\ BodyColon # 0 /\ program
        THEN Forwarded = << Drop(QueryLine, BodyColon) \o <<"\n">> >>
        ELSE Forwarded = << >>

\* ":alice!u@h PRIVMSG bot :hi" with a program configured: "hi" and a line
\* feed reach the program, once
C15_Witness ==
    /\ RemoteLineHandled
    /\ program
    /\ ev.before = <<":","a","l","i","c","e","!","u","@","h"," ","P","R","I","V","M","S","G"," ","b","o","t"," ",":","h","i","\r","\n">>
    /\ Len(prog_in) = ev.fwd0 + 1
    /\ prog_in[Len(prog_in)] = <<"h","i","\n">>

\* C16 as stated, for a finite run: once poll has reported the connection
\* readable, irc_handle's get_line can finish with what the connection holds
\* and main can go back to poll, whatever the server does or does not do
\* next.
C16_HandlerNeverWaits ==
    pc = "irc_in" => ENABLED IrcRead

\* C17 as stated: in a wake-up in which poll reports sources ready, one
\* close of the connection makes irc_disconnect run at most once, so the
\* connection a reconnect has just opened is not closed again; and when
\* get_line has reported the end of the old connection, irc_handle answers
\* nothing of what it read there on the new one.
C17_OneCloseOnePolicy ==
    /\ wake.kind = "ready" => wake.ndisc <= 1
    /\ ev.op = "irc_handle" /\ ev.src = "short" => Len(wire) = ev.start

\* C18 as stated, for a finite run: when make_fifo closes the pipe after its
\* writer has gone, the pipe holds no complete line that has not been read
\* (the close drops what is unread, so such a line is never emitted).  The
\* line feed left behind by a line that filled the buffer is not counted.
C18_NoLineLostOnClose ==
    ev.op = "make_fifo" => FirstOf(ev.before, {"\n"}, 2) = 0

\* a frame is one line: its only line feed is its last byte
SingleLine(f) == FirstOf(f, {"\n"}, 1) = Len(f)

\* C19 as stated: irc_handle reaches its end without going through a null
\* pointer (the end of line strpbrk did not find, the colon strchr did not
\* find), and every reply it writes is a single line.
C19_NoMissingPointer ==
    /\ pc # "crashed"
    /\ ev.op = "irc_handle" =>
           /\ ~IrcProcess(ev.before).ub
           /\ \A i \in (ev.start + 1)..Len(wire) : SingleLine(wire[i].data)

\* C20 as stated, for a finite run: when main is back at poll after a
\* wake-up, with the connection open and more than 600 seconds gone since the
\* last line of the server, the idle check has run in that wake-up, whether
\* poll timed out or a local source was ready.
C20_IdleCheckNotStarved ==
    /\ pc = "poll" /\ wakes >= 1
    /\ irc_closed = {}
    /\ IdleExpired(now, recv_time)
    => wake.checked

============================================================================
